---- MODULE Spec2Model ----
(***************************************************************************)
(* The wealth-tax simulator of streamlit_app.py.                           *)
(*                                                                         *)
(* Every number the program computes is a Python float, i.e. an IEEE 754   *)
(* binary64 value, and every +, -, * and / rounds its exact result to the  *)
(* nearest such value (ties to even).  The model keeps that arithmetic: a  *)
(* float is a sign, a 53-bit significand and a binary exponent, and the    *)
(* significand is a natural number of arbitrary size held as a sequence of *)
(* 15-bit limbs, least significant limb first.                             *)
(***************************************************************************)
EXTENDS Integers, Sequences, FiniteSets, TLC

(***************************************************************************)
(* Natural numbers of arbitrary size                                       *)
(***************************************************************************)
LimbBits == 5 * 3
Base == 2 ^ LimbBits

\* the largest member of a nonempty set of integers
Max(S) == CHOOSE x \in S : \A y \in S : y <= x

\* the index of the most significant nonzero limb of a, 0 if there is none
TopLimb(a) == Max({0} \cup {i \in 1..Len(a) : a[i] # 0})

\* a without its leading zero limbs
BNorm(a) == SubSeq(a, 1, TopLimb(a))

\* limb i of a, 0 beyond its length
Limb(a, i) == IF i <= Len(a) THEN a[i] ELSE 0

RECURSIVE BFromInt(_)
BFromInt(n) ==
    IF n = 0 THEN <<>> ELSE <<n % Base>> \o BFromInt(n \div Base)

RECURSIVE BAddC(_, _, _)
\* a + b + c for a carry c
BAddC(a, b, c) ==
    IF a = <<>> /\ b = <<>> THEN (IF c = 0 THEN <<>> ELSE <<c>>)
    ELSE IF a = <<>> THEN BAddC(<<0>>, b, c)
    ELSE IF b = <<>> THEN BAddC(a, <<0>>, c)
    ELSE <<(Head(a) + Head(b) + c) % Base>>
         \o BAddC(Tail(a), Tail(b), (Head(a) + Head(b) + c) \div Base)

BAdd(a, b) == BAddC(a, b, 0)

RECURSIVE BSubC(_, _, _)
\* a - b - c for a borrow c, as many limbs as a has
BSubC(a, b, c) ==
    IF a = <<>> THEN <<>>
    ELSE IF b = <<>> THEN BSubC(a, <<0>>, c)
    ELSE <<(Head(a) - Head(b) - c) % Base>>
         \o BSubC(Tail(a), Tail(b), IF Head(a) - Head(b) - c < 0 THEN 1 ELSE 0)

\* a - b for a >= b
BSub(a, b) == BNorm(BSubC(a, b, 0))

\* the comparison of a and b of one length at the most significant limb
\* where they differ, i = 0 meaning none
BCmpAt(a, b, i) ==
    IF i = 0 THEN 0 ELSE IF a[i] > b[i] THEN 1 ELSE -1

\* -1, 0 or 1 as a < b, a = b or a > b
BCmp(a, b) ==
    IF Len(a) > Len(b) THEN 1
    ELSE IF Len(a) < Len(b) THEN -1
    ELSE BCmpAt(a, b, Max({0} \cup {i \in 1..Len(a) : a[i] # b[i]}))

RECURSIVE BMulSmall(_, _, _)
\* a * k + c for 0 <= k, c < Base
BMulSmall(a, k, c) ==
    IF a = <<>> THEN (IF c = 0 THEN <<>> ELSE <<c>>)
    ELSE <<(Head(a) * k + c) % Base>>
         \o BMulSmall(Tail(a), k, (Head(a) * k + c) \div Base)

\* low + Base * high
BJoin(low, high) == IF high = <<>> THEN low ELSE BAdd(low, <<0>> \o high)

RECURSIVE BMul(_, _)
BMul(a, b) ==
    IF a = <<>> \/ b = <<>> THEN <<>>
    ELSE BJoin(BNorm(BMulSmall(a, Head(b), 0)), BMul(a, Tail(b)))

\* limb i of a * 2^k for 0 <= k < LimbBits
ShlLimb(a, k, i) ==
    ((Limb(a, i) * (2 ^ k)) % Base)
    + (IF i > 1 THEN a[i - 1] \div (2 ^ (LimbBits - k)) ELSE 0)

\* a * 2^n
BShl(a, n) ==
    IF a = <<>> THEN a
    ELSE [i \in 1..(n \div LimbBits) |-> 0]
         \o BNorm([i \in 1..(Len(a) + 1) |-> ShlLimb(a, n % LimbBits, i)])

\* limb i of a \div 2^k for 0 <= k < LimbBits
ShrLimb(a, k, i) ==
    (a[i] \div (2 ^ k)) + (Limb(a, i + 1) % (2 ^ k)) * (2 ^ (LimbBits - k))

\* a \div 2^n
BShr(a, n) ==
    IF n \div LimbBits >= Len(a) THEN <<>>
    ELSE BNorm([i \in 1..(Len(a) - (n \div LimbBits)) |->
                   ShrLimb(a, n % LimbBits, i + (n \div LimbBits))])

\* bit i of a, bit 0 the least significant
BBit(a, i) ==
    IF i \div LimbBits >= Len(a) THEN 0
    ELSE (a[(i \div LimbBits) + 1] \div (2 ^ (i % LimbBits))) % 2

\* are the n low bits of a all zero
BLowBitsZero(a, n) ==
    /\ \A i \in 1..(n \div LimbBits) : i > Len(a) \/ a[i] = 0
    /\ \/ n \div LimbBits >= Len(a)
       \/ a[(n \div LimbBits) + 1] % (2 ^ (n % LimbBits)) = 0

\* the number of bits of a limb x
SmallBitLen(x) == CHOOSE k \in 0..LimbBits : x < 2 ^ k /\ (k = 0 \/ x >= 2 ^ (k - 1))

BBitLen(a) ==
    IF a = <<>> THEN 0 ELSE LimbBits * (Len(a) - 1) + SmallBitLen(a[Len(a)])

\* the quotient limb of cur by d, given an estimate that is the limb or at
\* most 2 above it
QFix(cur, d, qhat) ==
    IF BCmp(BNorm(BMulSmall(d, qhat, 0)), cur) <= 0 THEN qhat
    ELSE IF BCmp(BNorm(BMulSmall(d, qhat - 1, 0)), cur) <= 0 THEN qhat - 1
    ELSE qhat - 2

\* cur \div d for cur < Base * d and d's top limb at least Base \div 2: the
\* estimate from the two top limbs of cur and the top limb of d is the
\* quotient or at most 2 above it
QDigit(cur, d) ==
    IF (Limb(cur, Len(d) + 1) * Base + Limb(cur, Len(d))) \div d[Len(d)] >= Base
    THEN QFix(cur, d, Base - 1)
    ELSE QFix(cur, d, (Limb(cur, Len(d) + 1) * Base + Limb(cur, Len(d))) \div d[Len(d)])

RECURSIVE BDivLimbs(_, _, _, _, _)
\* long division of the limbs i, i - 1, ..., 1 of n by d, with the quotient
\* limbs q and the remainder r of the limbs above them: <<quotient limbs,
\* remainder>>
BDivLimbs(n, d, i, q, r) ==
    IF i = 0 THEN <<q, r>>
    ELSE LET cur == BNorm(<<n[i]>> \o r)
             qd == QDigit(cur, d)
         IN  IF qd < 0 THEN <<q, r>>
             ELSE BDivLimbs(n, d, i - 1, <<qd>> \o q, BSub(cur, BNorm(BMulSmall(d, qd, 0))))

BDivUnshift(qr, sh) == <<BNorm(qr[1]), BShr(qr[2], sh)>>

BDivShifted(n, d, sh) == BDivUnshift(BDivLimbs(n, d, Len(n), <<>>, <<>>), sh)

\* <<n \div d, n % d>> for d # 0: n and d shifted to fill d's top limb
BDivBy(n, d, sh) == BDivShifted(BShl(n, sh), BShl(d, sh), sh)

BDivMod(n, d) ==
    BDivBy(n, d, (LimbBits - (BBitLen(d) % LimbBits)) % LimbBits)

(***************************************************************************)
(* Exact dyadic numbers (-1)^s * m * 2^e and their rounding to a float     *)
(***************************************************************************)
MantBits == 53

DZero(s) == [s |-> s, m |-> <<>>, e |-> 0]

IsZero(a) == a.m = <<>>

DNeg(a) == [a EXCEPT !.s = 1 - a.s]

DAbs(a) == [a EXCEPT !.s = 0]

DMul(a, b) ==
    IF IsZero(a) \/ IsZero(b) THEN DZero((a.s + b.s) % 2)
    ELSE [s |-> (a.s + b.s) % 2, m |-> BMul(a.m, b.m), e |-> a.e + b.e]

\* the difference of the magnitudes ma and mb, c their comparison
DSubMag(sa, ma, sb, mb, e, c) ==
    IF c = 0 THEN DZero(0)
    ELSE IF c > 0 THEN [s |-> sa, m |-> BSub(ma, mb), e |-> e]
    ELSE [s |-> sb, m |-> BSub(mb, ma), e |-> e]

DAddAligned(sa, ma, sb, mb, e) ==
    IF sa = sb THEN [s |-> sa, m |-> BAdd(ma, mb), e |-> e]
    ELSE DSubMag(sa, ma, sb, mb, e, BCmp(ma, mb))

DAddAt(a, b, e) ==
    DAddAligned(a.s, BShl(a.m, a.e - e), b.s, BShl(b.m, b.e - e), e)

DAdd(a, b) ==
    IF IsZero(a) /\ IsZero(b) THEN DZero(IF a.s = 1 /\ b.s = 1 THEN 1 ELSE 0)
    ELSE IF IsZero(a) THEN b
    ELSE IF IsZero(b) THEN a
    ELSE DAddAt(a, b, IF a.e < b.e THEN a.e ELSE b.e)

DSub(a, b) == DAdd(a, DNeg(b))

DSign(d) == IF IsZero(d) THEN 0 ELSE IF d.s = 1 THEN -1 ELSE 1

\* the sign of a - b: -1, 0 or 1
DCmp(a, b) == DSign(DSub(a, b))

\* a significand that rounding up has carried to MantBits + 1 bits
Renorm(s, q, e) ==
    IF BBitLen(q) > MantBits THEN [s |-> s, m |-> BShr(q, 1), e |-> e + 1]
    ELSE [s |-> s, m |-> q, e |-> e]

\* m cut by sh >= 1 bits: up when the part cut off is over half of the last
\* place kept, or is half of it and the last bit kept is odd
RoundCut(s, m, e, sticky, sh) ==
    Renorm(s,
           IF /\ BBit(m, sh - 1) = 1
              /\ (sticky \/ ~BLowBitsZero(m, sh - 1) \/ BBit(m, sh) = 1)
           THEN BAdd(BShr(m, sh), <<1>>) ELSE BShr(m, sh),
           e + sh)

RoundLen(s, m, e, sticky, L) ==
    IF L <= MantBits
    THEN [s |-> s, m |-> BShl(m, MantBits - L), e |-> e - (MantBits - L)]
    ELSE RoundCut(s, m, e, sticky, L - MantBits)

\* m * 2^e (plus a nonzero lower part when sticky) rounded to MantBits bits,
\* ties to even; the result has a significand of exactly MantBits bits
Round(s, m, e, sticky) ==
    IF m = <<>> THEN DZero(s) ELSE RoundLen(s, m, e, sticky, BBitLen(m))

RoundD(a) == Round(a.s, a.m, a.e, FALSE)

(***************************************************************************)
(* Python float arithmetic                                                 *)
(***************************************************************************)
\* float(n) for an integer n
FInt(n) ==
    IF n < 0 THEN Round(1, BFromInt(0 - n), 0, FALSE)
    ELSE Round(0, BFromInt(n), 0, FALSE)

FNeg(a) == DNeg(a)

FAdd(a, b) == RoundD(DAdd(a, b))

FSub(a, b) == RoundD(DSub(a, b))

FMul(a, b) == RoundD(DMul(a, b))

FDivRound(a, b, sh, qr) ==
    Round((a.s + b.s) % 2, qr[1], a.e - b.e - sh, qr[2] # <<>>)

FDivShift(a, b, sh) == FDivRound(a, b, sh, BDivMod(BShl(a.m, sh), b.m))

\* a / b for b # 0: the quotient of the significands to three bits more than
\* a float holds, the remainder as the sticky bit
FDiv(a, b) ==
    IF IsZero(a) THEN DZero((a.s + b.s) % 2)
    ELSE FDivShift(a, b, MantBits + 3 + BBitLen(b.m) - BBitLen(a.m))

\* a == b, a < b, a <= b of Python floats
FEq(a, b) == DCmp(a, b) = 0

FLt(a, b) == DCmp(a, b) < 0

FLe(a, b) == DCmp(a, b) <= 0

\* the float nearest to the decimal n / d, as a literal such as 0.3 denotes
FDec(n, d) == FDiv(FInt(n), FInt(d))

(***************************************************************************)
(* numpy float64 scalars, as the share computations read them out of the   *)
(* DataFrame: a finite float, nan (also the value of a cell no assignment  *)
(* has filled yet) or an infinity.  A zero divisor gives nan or an         *)
(* infinity (and a RuntimeWarning), never an exception; "raise" is the     *)
(* ZeroDivisionError a division of plain Python floats would be.           *)
(***************************************************************************)
Num(v) == [k |-> "num", v |-> v]

NaN == [k |-> "nan", v |-> DZero(0)]

Inf(s) == [k |-> "inf", v |-> DZero(s)]

Raised == [k |-> "raise", v |-> DZero(0)]

NpAdd(a, b) ==
    IF a.k = "raise" \/ b.k = "raise" THEN Raised
    ELSE IF a.k = "nan" \/ b.k = "nan" THEN NaN
    ELSE IF a.k = "inf" /\ b.k = "inf" THEN (IF a.v.s = b.v.s THEN a ELSE NaN)
    ELSE IF a.k = "inf" THEN a
    ELSE IF b.k = "inf" THEN b
    ELSE Num(FAdd(a.v, b.v))

\* a division by zero that raises, as the division of plain Python floats does
PyZeroDiv(a, b) == Raised

\* a / b of two finite float64 scalars for b = 0: nan for 0 / 0, else an
\* infinity of the quotient's sign
NpZeroDiv(a, b) == IF IsZero(a) THEN NaN ELSE Inf((a.s + b.s) % 2)

NpDiv(a, b) ==
    IF a.k = "raise" \/ b.k = "raise" THEN Raised
    ELSE IF a.k = "nan" \/ b.k = "nan" THEN NaN
    ELSE IF a.k = "inf" /\ b.k = "inf" THEN NaN
    ELSE IF a.k = "inf" THEN Inf((a.v.s + b.v.s) % 2)
    ELSE IF b.k = "inf" THEN Num(DZero((a.v.s + b.v.s) % 2))
    ELSE IF IsZero(b.v) THEN NpZeroDiv(a.v, b.v)
    ELSE Num(FDiv(a.v, b.v))

RECURSIVE NpSum(_, _)
\* sum(cells), Python's: from the int 0, left to right; acc the sum so far
NpSum(acc, cells) ==
    IF cells = <<>> THEN acc ELSE NpSum(NpAdd(acc, Head(cells)), Tail(cells))

(***************************************************************************)
(* Inputs                                                                  *)
(***************************************************************************)
MaxYears == 3
MinAppYears == 5
MaxAppYears == 6

Hundred == FInt(100)

\* initialize_wealth_groups: total wealth of the three groups, in billions
group_1_wealth == 1200
group_2_wealth == 8000
group_3_wealth == 800

initialize_wealth_groups ==
    [top |-> FInt(group_1_wealth), middle |-> FInt(group_2_wealth),
     lower |-> FInt(group_3_wealth)]

Groups(t, m, l) == [top |-> FInt(t), middle |-> FInt(m), lower |-> FInt(l)]

\* wealth_threshold: the number input, in millions, times 1_000_000
Threshold(millions) == FMul(FInt(millions), FInt(1000000))

Args(w, y, tax, th, g, p, eff) ==
    [wealth_groups |-> w, years |-> y, tax_rate |-> tax, threshold |-> th,
     growth_rate |-> g, high_wealth_premium |-> p, redistribution_eff |-> eff]

\* calls of simulate_wealth_tax_impact: any distribution, any horizon from 0,
\* rates inside and outside the sliders' ranges, among them a tax of 100% with
\* no efficiency and a tax of 200%, which bring the total to zero, and a
\* negative wealth with a negative growth and an efficiency over 1
CallInputs ==
    { Args(w, y, tax, Threshold(10), g, FInt(1), eff) :
        w \in {initialize_wealth_groups, Groups(0, 0, 0), Groups(30000000, 5000, 40)},
        y \in 0..MaxYears,
        tax \in {FInt(0), FInt(2), FDec(37, 10)},
        g \in {FInt(5), FDec(33, 10)},
        eff \in {FDec(80, 100), FInt(1)} }
    \cup
    { Args(Groups(100, 0, 0), y, FInt(100), Threshold(10), FInt(0), FInt(0), FInt(0)) :
        y \in 1..MaxYears }
    \cup
    { Args(Groups(100, 0, 0), y, FInt(200), Threshold(10), FInt(0), FInt(0), FDec(50, 100)) :
        y \in 1..MaxYears }
    \cup
    { Args(Groups(-500, 2000, 0), y, FDec(37, 10), Threshold(10), FNeg(FDec(25, 10)),
           FInt(1), FDec(15, 10)) :
        y \in 1..MaxYears }

\* the page's own run: the built-in distribution and the sliders' values,
\* their ends and their defaults among them (redistribution_efficiency is the
\* slider's percentage divided by 100)
AppInputs ==
    { Args(initialize_wealth_groups, y, tax, Threshold(10), g, p, FDiv(FInt(pct), Hundred)) :
        y \in MinAppYears..MaxAppYears,
        tax \in {FInt(0), FInt(2), FInt(5)},
        g \in {FInt(1), FDec(51, 10), FInt(10)},
        p \in {FInt(0), FInt(5)},
        pct \in {50, 80, 100} }
    \cup
    { Args(initialize_wealth_groups, y, FInt(2), Threshold(10), FInt(5), FInt(1),
           FDiv(FInt(80), Hundred)) :
        y \in MinAppYears..MaxAppYears }

\* the threshold of the second run that C6 compares with the first
OtherThreshold == Threshold(50)

(***************************************************************************)
(* simulate_wealth_tax_impact                                              *)
(***************************************************************************)
VARIABLES
    pc,             \* where the page's script stands
    args,           \* the arguments of the call
    year,           \* the loop variable of simulate_wealth_tax_impact
    current_state,  \* its current_state dict
    results,        \* its results list, the DataFrame once returned
    steps,          \* history: the locals of each iteration of the loop
    twin,           \* the same call with another threshold: its results
    wealth_shares,  \* the Share columns, one row a year
    tax_revenue,    \* the tax_revenue list
    share_i,        \* the rows of wealth_shares the share loop has done
    share_totals,   \* history: total_wealth of each iteration of the share loop
    summary,        \* initial_share and final_share of the three groups
    total_tax       \* the total shown, once computed

vars == <<pc, args, year, current_state, results, steps, twin, wealth_shares,
          share_i, share_totals, tax_revenue, summary, total_tax>>

display == <<wealth_shares, share_i, share_totals, tax_revenue, summary, total_tax>>

Snapshot(y, t, m, l) == [year |-> y, top |-> t, middle |-> m, lower |-> l]

NoState == Snapshot(-1, DZero(0), DZero(0), DZero(0))

NoShares == [top |-> NaN, middle |-> NaN, lower |-> NaN]

NoSummary == [initial |-> NoShares, final |-> NoShares]

\* a step that redistributes the tax without taking it from the top group
StepResultUntaxed(y, grown, tax_collected, tax_to_redistribute, middle_wealth_share, lower_wealth_share) ==
    [state |-> Snapshot(y,
                        grown.top,
                        FAdd(grown.middle, FMul(tax_to_redistribute, middle_wealth_share)),
                        FAdd(grown.lower, FMul(tax_to_redistribute, lower_wealth_share))),
     locals |-> [year |-> y,
                 ultra_wealthy_new |-> grown.top,
                 middle_wealth_new |-> grown.middle,
                 lower_wealth_new |-> grown.lower,
                 tax_collected |-> tax_collected,
                 tax_to_redistribute |-> tax_to_redistribute]]

\* current_state after an iteration, and the iteration's locals
StepResult(y, grown, tax_collected, tax_to_redistribute, middle_wealth_share, lower_wealth_share) ==
    [state |-> Snapshot(y,
                        FSub(grown.top, tax_collected),
                        FAdd(grown.middle, FMul(tax_to_redistribute, middle_wealth_share)),
                        FAdd(grown.lower, FMul(tax_to_redistribute, lower_wealth_share))),
     locals |-> [year |-> y,
                 ultra_wealthy_new |-> grown.top,
                 middle_wealth_new |-> grown.middle,
                 lower_wealth_new |-> grown.lower,
                 tax_collected |-> tax_collected,
                 tax_to_redistribute |-> tax_to_redistribute]]

\* a redistribution whose shares, 30% and 60%, do not add up to the whole
RedistributeShort(y, grown, tax_collected, redistribution_eff) ==
    StepResult(y, grown, tax_collected, FMul(tax_collected, redistribution_eff),
               FDec(3, 10), FDec(6, 10))

\* tax_to_redistribute = tax_collected * redistribution_eff, 30% of it to the
\* middle group and 70% to the lower
Redistribute(y, grown, tax_collected, redistribution_eff) ==
    StepResult(y, grown, tax_collected, FMul(tax_collected, redistribution_eff),
               FDec(3, 10), FDec(7, 10))

\* a step that hands on the whole tax, whatever the efficiency
TaxAllRedistributed(y, grown, tax_rate, threshold, redistribution_eff) ==
    Redistribute(y, grown, FMul(grown.top, FDiv(tax_rate, Hundred)), FInt(1))

\* a step that takes the efficiency for the tax rate
TaxAtEfficiency(y, grown, tax_rate, threshold, redistribution_eff) ==
    Redistribute(y, grown, FMul(grown.top, FDiv(redistribution_eff, Hundred)),
                 redistribution_eff)

\* a step that taxes the top group only when its wealth is over the threshold
TaxOverThreshold(y, grown, tax_rate, threshold, redistribution_eff) ==
    IF FLt(threshold, grown.top)
    THEN Redistribute(y, grown, FMul(grown.top, FDiv(tax_rate, Hundred)),
                      redistribution_eff)
    ELSE Redistribute(y, grown, FInt(0), redistribution_eff)

\* tax_collected = ultra_wealthy_new * (tax_rate / 100); threshold is not read
TaxAndRedistribute(y, grown, tax_rate, threshold, redistribution_eff) ==
    Redistribute(y, grown, FMul(grown.top, FDiv(tax_rate, Hundred)), redistribution_eff)

\* a growth step that keeps the growth alone, not the wealth it grew from
GrowthAlone(cur, growth_rate, high_wealth_premium) ==
    [top |-> FMul(cur.top, FDiv(FAdd(growth_rate, high_wealth_premium), Hundred)),
     middle |-> FMul(cur.middle, FDiv(growth_rate, Hundred)),
     lower |-> FMul(cur.lower, FDiv(growth_rate, Hundred))]

\* ultra_wealthy_new, middle_wealth_new, lower_wealth_new: each group's wealth
\* plus its growth
Growth(cur, growth_rate, high_wealth_premium) ==
    [top |-> FAdd(cur.top,
                  FMul(cur.top, FDiv(FAdd(growth_rate, high_wealth_premium), Hundred))),
     middle |-> FAdd(cur.middle, FMul(cur.middle, FDiv(growth_rate, Hundred))),
     lower |-> FAdd(cur.lower, FMul(cur.lower, FDiv(growth_rate, Hundred)))]

\* one iteration of the loop, for the year y
SimStep(cur, y, tax_rate, threshold, growth_rate, high_wealth_premium, redistribution_eff) ==
    TaxAndRedistribute(y, Growth(cur, growth_rate, high_wealth_premium), tax_rate,
                       threshold, redistribution_eff)

\* results = []; current_state = {year 0 and the three total_wealth values};
\* results.append(current_state)
InitialState(wealth_groups) ==
    Snapshot(0, wealth_groups.top, wealth_groups.middle, wealth_groups.lower)

\* a loop over range(1, years): one year short
LoopDoneEarly(y, years) == y + 1 >= years

\* range(1, years + 1) is exhausted after the year y
LoopDone(y, years) == y >= years

Begin ==
    /\ pc = "start"
    /\ current_state' = InitialState(args.wealth_groups)
    /\ results' = <<InitialState(args.wealth_groups)>>
    /\ twin' = [twin EXCEPT !.current_state = InitialState(args.wealth_groups),
                            !.results = <<InitialState(args.wealth_groups)>>]
    /\ year' = 0
    /\ pc' = "loop"
    /\ UNCHANGED <<args, steps, display>>

\* an append of the one dict the loop updates in place: every entry of the
\* list is then the latest state
StepToAliased(r, r2) ==
    /\ current_state' = r.state
    /\ results' = [i \in 1..(Len(results) + 1) |-> r.state]
    /\ steps' = Append(steps, r.locals)
    /\ twin' = [twin EXCEPT !.current_state = r2.state,
                            !.results = [i \in 1..(Len(twin.results) + 1) |-> r2.state]]

\* current_state = {...}; results.append(current_state)
StepTo(r, r2) ==
    /\ current_state' = r.state
    /\ results' = Append(results, r.state)
    /\ steps' = Append(steps, r.locals)
    /\ twin' = [twin EXCEPT !.current_state = r2.state,
                            !.results = Append(twin.results, r2.state)]

\* for year in range(1, years + 1): one iteration
Step ==
    /\ pc = "loop"
    /\ ~LoopDone(year, args.years)
    /\ StepTo(SimStep(current_state, year + 1, args.tax_rate, args.threshold,
                      args.growth_rate, args.high_wealth_premium,
                      args.redistribution_eff),
              SimStep(twin.current_state, year + 1, args.tax_rate, twin.threshold,
                      args.growth_rate, args.high_wealth_premium,
                      args.redistribution_eff))
    /\ year' = year + 1
    /\ UNCHANGED <<pc, args, display>>

\* return pd.DataFrame(results)
Return ==
    /\ pc = "loop"
    /\ LoopDone(year, args.years)
    /\ pc' = "copy"
    /\ UNCHANGED <<args, year, current_state, results, steps, twin, display>>

sim == <<args, year, current_state, results, steps, twin>>

(***************************************************************************)
(* The page's derived figures                                              *)
(***************************************************************************)
\* wealth_shares = simulation_results.copy(): a row a year, the cells of its
\* columns other than "year" in column order
CopyResults ==
    /\ pc = "copy"
    /\ wealth_shares' = [i \in 1..Len(results) |->
                            <<Num(results[i].top), Num(results[i].middle),
                              Num(results[i].lower)>>]
    /\ share_i' = 0
    /\ pc' = "shares"
    /\ UNCHANGED <<sim, share_totals, tax_revenue, summary, total_tax>>

RECURSIVE ShareCells(_, _, _)
\* the inner loop over the columns the frame had when the loop began: column
\* j's "<column> Share" cell, three places on, becomes cell j / total_wealth
ShareCells(cells, total_wealth, j) ==
    IF j + 3 > Len(cells) THEN cells
    ELSE ShareCells([cells EXCEPT ![j + 3] = NpDiv(cells[j], total_wealth)],
                    total_wealth, j + 1)

\* one iteration of "for year in wealth_shares["year"]" on the row of that
\* year: total_wealth sums every column the frame has by now, the Share
\* columns earlier iterations added among them, and each assignment to a
\* column the frame lacks adds it, nan in the other rows
ShareRowWith(cells, total_wealth) ==
    [total_wealth |-> total_wealth,
     cells |-> ShareCells(cells \o <<NaN, NaN, NaN>>, total_wealth, 1)]

ShareRow(cells) == ShareRowWith(cells, NpSum(Num(FInt(0)), cells))

ShareYearTo(r) ==
    /\ wealth_shares' =
          [i \in 1..Len(wealth_shares) |->
              IF i = share_i + 1 THEN r.cells
              ELSE wealth_shares[i] \o <<NaN, NaN, NaN>>]
    /\ share_totals' = Append(share_totals, r.total_wealth)
    /\ pc' = IF \E j \in 1..Len(r.cells) : r.cells[j].k = "raise"
             THEN "ZeroDivisionError" ELSE pc

ShareYear ==
    /\ pc = "shares"
    /\ share_i < Len(wealth_shares)
    /\ ShareYearTo(ShareRow(wealth_shares[share_i + 1]))
    /\ share_i' = share_i + 1
    /\ UNCHANGED <<sim, tax_revenue, summary, total_tax>>

\* share_columns and the share chart; tax_revenue = []
PlotShares ==
    /\ pc = "shares"
    /\ share_i >= Len(wealth_shares)
    /\ tax_revenue' = <<>>
    /\ pc' = "revenue"
    /\ UNCHANGED <<sim, wealth_shares, share_i, share_totals, summary, total_tax>>

\* a revenue recomputed without the premium of the top group's growth
RevenueNoPremium(prev, cur, avg_growth_rate, high_wealth_growth_premium) ==
    [year |-> cur.year,
     tax_revenue |->
        FSub(FMul(prev.top, FAdd(FInt(1), FDiv(avg_growth_rate, Hundred))), cur.top)]

\* the revenue of year i as the page recomputes it from rows i - 1 and i:
\* ultra_wealthy_pre_tax - ultra_wealthy_post_tax
RevenueEntry(prev, cur, avg_growth_rate, high_wealth_growth_premium) ==
    [year |-> cur.year,
     tax_revenue |->
        FSub(FMul(prev.top,
                  FAdd(FInt(1),
                       FDiv(FAdd(avg_growth_rate, high_wealth_growth_premium), Hundred))),
             cur.top)]

\* for i in range(1, len(simulation_results)): one iteration
RevenueYear ==
    /\ pc = "revenue"
    /\ Len(tax_revenue) + 1 < Len(results)
    /\ tax_revenue' =
          Append(tax_revenue,
                 RevenueEntry(results[Len(tax_revenue) + 1], results[Len(tax_revenue) + 2],
                              args.growth_rate, args.high_wealth_premium))
    /\ UNCHANGED <<pc, sim, wealth_shares, share_i, share_totals, summary, total_tax>>

\* tax_df = pd.DataFrame(tax_revenue) and the bar chart of tax_df["year"]:
\* a frame made from an empty list has no "year" column
PlotRevenue ==
    /\ pc = "revenue"
    /\ Len(tax_revenue) + 1 >= Len(results)
    /\ pc' = IF tax_revenue = <<>> THEN "KeyError" ELSE "summary"
    /\ UNCHANGED <<sim, display>>

RowSharesOf(row, total) ==
    [top |-> NpDiv(Num(row.top), total),
     middle |-> NpDiv(Num(row.middle), total),
     lower |-> NpDiv(Num(row.lower), total)]

\* row[group] / sum([row[col] for col in row.index if col != "year"])
RowShares(row) ==
    RowSharesOf(row, NpSum(Num(FInt(0)),
                           <<Num(row.top), Num(row.middle), Num(row.lower)>>))

SummaryTo(s) ==
    /\ summary' = s
    /\ pc' = IF \E w \in {"initial", "final"} :
                 \E g \in {"top", "middle", "lower"} : s[w][g].k = "raise"
             THEN "ZeroDivisionError" ELSE "total"

\* initial_share and final_share of each group, from the first and last rows
Summary ==
    /\ pc = "summary"
    /\ SummaryTo([initial |-> RowShares(results[1]),
                  final |-> RowShares(results[Len(results)])])
    /\ UNCHANGED <<sim, wealth_shares, share_i, share_totals, tax_revenue, total_tax>>

RECURSIVE SumRevenue(_, _)
\* sum(tax_df["tax_revenue"]), Python's: from the int 0, left to right
SumRevenue(acc, entries) ==
    IF entries = <<>> THEN acc
    ELSE SumRevenue(FAdd(acc, Head(entries).tax_revenue), Tail(entries))

Total ==
    /\ pc = "total"
    /\ total_tax' = SumRevenue(FInt(0), tax_revenue)
    /\ pc' = "done"
    /\ UNCHANGED <<sim, wealth_shares, share_i, share_totals, tax_revenue, summary>>

(***************************************************************************)
(* Specifications                                                          *)
(***************************************************************************)
InitWith(inputs) ==
    /\ args \in inputs
    /\ pc = "start"
    /\ year = 0
    /\ current_state = NoState
    /\ results = <<>>
    /\ steps = <<>>
    /\ twin = [threshold |-> OtherThreshold, current_state |-> NoState, results |-> <<>>]
    /\ wealth_shares = <<>>
    /\ share_i = 0
    /\ share_totals = <<>>
    /\ tax_revenue = <<>>
    /\ summary = NoSummary
    /\ total_tax = DZero(0)

Init == InitWith(CallInputs)

InitApp == InitWith(AppInputs)

Next ==
    \/ Begin
    \/ Step
    \/ Return
    \/ CopyResults
    \/ ShareYear
    \/ PlotShares
    \/ RevenueYear
    \/ PlotRevenue
    \/ Summary
    \/ Total

\* a call of simulate_wealth_tax_impact with any arguments, and the page's
\* figures derived from what it returns
Spec == Init /\ [][Next]_vars

\* the page as served: the built-in distribution and the sliders' ranges
SpecApp == InitApp /\ [][Next]_vars

(***************************************************************************)
(* Vocabulary of the properties                                            *)
(***************************************************************************)
Zero == FInt(0)

\* |a - b| <= 2^-48 * |scale|, in exact arithmetic
Close(a, b, scale) ==
    DCmp(DAbs(DSub(a, b)), DMul([s |-> 0, m |-> <<1>>, e |-> -48], DAbs(scale))) <= 0

\* the documented domain: no negative wealth or rate, a tax rate of at most
\* 100% and an efficiency of at most 1
InRange ==
    /\ FLe(Zero, args.wealth_groups.top)
    /\ FLe(Zero, args.wealth_groups.middle)
    /\ FLe(Zero, args.wealth_groups.lower)
    /\ FLe(Zero, args.growth_rate)
    /\ FLe(Zero, args.high_wealth_premium)
    /\ FLe(Zero, args.tax_rate) /\ FLe(args.tax_rate, Hundred)
    /\ FLe(Zero, args.redistribution_eff) /\ FLe(args.redistribution_eff, FInt(1))

\* simulate_wealth_tax_impact has just returned its trajectory
Returned == pc = "copy"

\* the years simulated so far
Simulated == 1..Len(steps)

\* the snapshots before and after the step of year t
Before(t) == results[t]

After(t) == results[t + 1]

\* the update rule as the specification writes it, computed in floats in the
\* order written
RuleTopGrown(prev) ==
    FMul(prev.top,
         FAdd(FInt(1), FDiv(FAdd(args.growth_rate, args.high_wealth_premium), Hundred)))

RuleGrown(x) == FMul(x, FAdd(FInt(1), FDiv(args.growth_rate, Hundred)))

RuleTax(grown) == FMul(grown, FDiv(args.tax_rate, Hundred))

\* the part n/100 of the tax that reaches a group
RuleShare(n, tax) == FMul(FMul(FDec(n, 100), tax), args.redistribution_eff)

RuleTop(grown, tax) == FSub(grown, tax)

RuleMiddle(prev, tax) == FAdd(RuleGrown(prev.middle), RuleShare(30, tax))

RuleLower(prev, tax) == FAdd(RuleGrown(prev.lower), RuleShare(70, tax))

\* Scenario A of the specification, and its year-1 snapshot
ScenarioA ==
    /\ args.wealth_groups = Groups(1200, 8000, 800)
    /\ args.tax_rate = FInt(2)
    /\ args.growth_rate = FInt(5)
    /\ args.high_wealth_premium = FInt(1)
    /\ args.redistribution_eff = FDec(8, 10)

ScenarioAHolds ==
    (ScenarioA /\ Len(results) >= 2) =>
        /\ FEq(results[2].top, FDec(124656, 100))
        /\ FEq(results[2].middle, FDec(84061056, 10000))
        /\ FEq(results[2].lower, FDec(8542464, 10000))

(***************************************************************************)
(* C1: the per-year update rule                                            *)
(***************************************************************************)
\* the snapshot of year t is exactly what the rule gives from the one before
RuleExactAt(t, grown, tax) ==
    /\ FEq(After(t).top, RuleTop(grown, tax))
    /\ FEq(After(t).middle, RuleMiddle(Before(t), tax))
    /\ FEq(After(t).lower, RuleLower(Before(t), tax))

\* the snapshot of year t is what the rule gives to within rounding
RuleCloseAt(t, grown, tax) ==
    /\ After(t).year = t
    /\ Close(After(t).top, RuleTop(grown, tax), grown)
    /\ Close(After(t).middle, RuleMiddle(Before(t), tax), After(t).middle)
    /\ Close(After(t).lower, RuleLower(Before(t), tax), After(t).lower)

\* C1 as claimed: every snapshot after the first of the returned trajectory
\* is exactly what the rule top*(1+(g+p)/100) etc. gives from the snapshot
\* before it, and Scenario A gives (1246.56, 8406.1056, 854.2464).
C1_RuleExact ==
    Returned =>
       /\ \A t \in Simulated :
             \A grown \in {RuleTopGrown(Before(t))} :
                \A tax \in {RuleTax(grown)} : RuleExactAt(t, grown, tax)
       /\ ScenarioAHolds

\* C1 as amended: inside the documented domain every snapshot after the first
\* of the returned trajectory agrees with the rule to within rounding, 2^-48
\* of the group's post-growth value for the top group and of the value itself
\* for the other two, and Scenario A gives exactly (1246.56, 8406.1056,
\* 854.2464).
C1_RuleToRounding ==
    Returned =>
       /\ InRange =>
             \A t \in Simulated :
                \A grown \in {RuleTopGrown(Before(t))} :
                   \A tax \in {RuleTax(grown)} : RuleCloseAt(t, grown, tax)
       /\ ScenarioAHolds

C1_Witness == Returned /\ ScenarioA /\ Len(results) = 2

(***************************************************************************)
(* C2: the length of the trajectory and its first snapshot                 *)
(***************************************************************************)
\* C2: the returned trajectory has years + 1 snapshots and its first is year
\* 0 with the three initial total-wealth values unchanged; with years = 0 it
\* is that one snapshot.
C2_LengthAndFirst ==
    Returned =>
       /\ Len(results) = args.years + 1
       /\ results[1] = [year |-> 0,
                        top |-> args.wealth_groups.top,
                        middle |-> args.wealth_groups.middle,
                        lower |-> args.wealth_groups.lower]

C2_Witness ==
    Returned /\ args.years = 2 /\ Len(results) = 3 /\ ~IsZero(args.wealth_groups.top)

(***************************************************************************)
(* C3: conservation up to the leakage                                      *)
(***************************************************************************)
\* a + b + c, exactly
Sum3(a, b, c) == DAdd(DAdd(a, b), c)

\* a + b + c as Python adds floats, left to right
FSum3(a, b, c) == FAdd(FAdd(a, b), c)

\* |a| + |b| + |c| + |d| + |e|, exactly
Mag5(a, b, c, d, e) == DAdd(DAdd(Sum3(DAbs(a), DAbs(b), DAbs(c)), DAbs(d)), DAbs(e))

\* the sum of the three post-growth values of year t and of the three values
\* of its snapshot
GrownSum(t) ==
    Sum3(steps[t].ultra_wealthy_new, steps[t].middle_wealth_new, steps[t].lower_wealth_new)

AfterSum(t) == Sum3(After(t).top, After(t).middle, After(t).lower)

\* the leakage taxCollected * (1 - redistribution_eff), exactly
Leak(t) == DMul(steps[t].tax_collected, DSub(FInt(1), args.redistribution_eff))

\* the magnitudes a step's roundings are relative to
StepScale(t) ==
    Mag5(steps[t].ultra_wealthy_new, steps[t].middle_wealth_new,
         steps[t].lower_wealth_new, steps[t].tax_collected, steps[t].tax_to_redistribute)

\* P1 of year t in exact arithmetic, and in float arithmetic as written
P1Exact(t) == DCmp(GrownSum(t), DAdd(AfterSum(t), Leak(t))) = 0

P1Float(t) ==
    FEq(FSum3(steps[t].ultra_wealthy_new, steps[t].middle_wealth_new,
              steps[t].lower_wealth_new),
        FAdd(FSum3(After(t).top, After(t).middle, After(t).lower),
             FMul(steps[t].tax_collected, FSub(FInt(1), args.redistribution_eff))))

\* C3 as claimed: in every simulated year the three post-growth values sum to
\* the three snapshot values plus taxCollected * (1 - redistribution_eff),
\* whether the sums are taken exactly or in floats.
C3_ConservationExact ==
    Returned => \A t \in Simulated : P1Exact(t) \/ P1Float(t)

\* C3 as amended: in every simulated year and for every parameter set the two
\* sides differ by at most rounding, 2^-48 of the magnitudes of the
\* post-growth values, the tax and the tax redistributed.
C3_ConservationToRounding ==
    Returned =>
       \A t \in Simulated :
          /\ steps[t].year = t
          /\ Close(GrownSum(t), DAdd(AfterSum(t), Leak(t)), StepScale(t))

C3_Witness ==
    /\ Returned /\ Len(steps) = 2
    /\ ~IsZero(steps[2].tax_collected)
    /\ FLt(args.redistribution_eff, FInt(1))
    /\ ~IsZero(Leak(2))

(***************************************************************************)
(* C4: full efficiency conserves the total                                 *)
(***************************************************************************)
FullEfficiency == FEq(args.redistribution_eff, FInt(1))

\* the totals of year t agree exactly, or agree when added up in floats
TotalKept(t) ==
    \/ DCmp(AfterSum(t), GrownSum(t)) = 0
    \/ FEq(FSum3(After(t).top, After(t).middle, After(t).lower),
           FSum3(steps[t].ultra_wealthy_new, steps[t].middle_wealth_new,
                 steps[t].lower_wealth_new))

\* C4 as claimed: with redistribution_eff = 1 the total of the three snapshot
\* values of every simulated year equals the total of its three post-growth
\* values exactly.
C4_TotalConservedExactly ==
    (Returned /\ FullEfficiency) => \A t \in Simulated : TotalKept(t)

\* C4 as amended: with redistribution_eff = 1 and any tax rate the two totals
\* of every simulated year differ by at most rounding, 2^-48 of the
\* magnitudes of the post-growth values and the tax.
C4_TotalConservedToRounding ==
    (Returned /\ FullEfficiency) =>
       \A t \in Simulated : Close(AfterSum(t), GrownSum(t), StepScale(t))

C4_Witness ==
    /\ Returned /\ FullEfficiency /\ Len(steps) = 2
    /\ ~IsZero(steps[2].tax_collected)
    /\ FLt(After(2).top, steps[2].ultra_wealthy_new)

(***************************************************************************)
(* C5: a tax rate of zero                                                  *)
(***************************************************************************)
NoTax == IsZero(args.tax_rate)

\* year t collects no tax and leaves the top group its post-growth value
NothingTaken(t) ==
    /\ IsZero(steps[t].tax_collected)
    /\ FEq(After(t).top, steps[t].ultra_wealthy_new)
    /\ FEq(After(t).top,
           FAdd(Before(t).top,
                FMul(Before(t).top,
                     FDiv(FAdd(args.growth_rate, args.high_wealth_premium), Hundred))))

\* C5 as claimed: with tax_rate = 0, in every simulated year taxCollected is
\* 0, the top group keeps its post-growth value, and the middle and lower
\* values are exactly the previous value times (1 + growth_rate/100).
C5_ZeroTaxExact ==
    (Returned /\ NoTax) =>
       \A t \in Simulated :
          /\ NothingTaken(t)
          /\ FEq(After(t).middle, RuleGrown(Before(t).middle))
          /\ FEq(After(t).lower, RuleGrown(Before(t).lower))

\* the middle and lower values of year t are the previous value plus its
\* growth, previous * (growth_rate/100), and nothing else
OnlyGrowth(t, rate) ==
    /\ FEq(After(t).middle, FAdd(Before(t).middle, FMul(Before(t).middle, rate)))
    /\ FEq(After(t).lower, FAdd(Before(t).lower, FMul(Before(t).lower, rate)))

\* C5 as amended: with tax_rate = 0, whatever the efficiency, in every
\* simulated year taxCollected is 0, the top group keeps its post-growth
\* value, and the middle and lower values are the previous value plus its
\* growth previous * (growth_rate/100) with nothing added, which is the
\* previous value times (1 + growth_rate/100) to within rounding (2^-48 of
\* the value).
C5_ZeroTaxToRounding ==
    (Returned /\ NoTax) =>
       \A t \in Simulated :
          /\ NothingTaken(t)
          /\ OnlyGrowth(t, FDiv(args.growth_rate, Hundred))
          /\ Close(After(t).middle, RuleGrown(Before(t).middle), After(t).middle)
          /\ Close(After(t).lower, RuleGrown(Before(t).lower), After(t).lower)

C5_Witness ==
    /\ Returned /\ NoTax /\ Len(steps) = 2
    /\ FLt(args.redistribution_eff, FInt(1))
    /\ FLt(Before(2).middle, After(2).middle)

(***************************************************************************)
(* C6: the threshold                                                       *)
(***************************************************************************)
\* the top value of a snapshot is the post-growth value less tax_rate
\* per cent of it
TaxedFrom(after, ultra_wealthy_new) ==
    FEq(after.top,
        FSub(ultra_wealthy_new, FMul(ultra_wealthy_new, FDiv(args.tax_rate, Hundred))))

\* C6: the run and its twin, which differ in the threshold alone, hold the
\* same trajectory at every point, and in both the top group is taxed in
\* every year: its snapshot value is its post-growth value less tax_rate per
\* cent of it.
C6_ThresholdIgnored ==
    /\ twin.threshold # args.threshold
    /\ twin.results = results
    /\ \A t \in Simulated :
          /\ TaxedFrom(After(t), steps[t].ultra_wealthy_new)
          /\ TaxedFrom(twin.results[t + 1], steps[t].ultra_wealthy_new)

\* a run whose top group lies between the two thresholds and pays tax
C6_Witness ==
    /\ Returned /\ Len(steps) = 2
    /\ FLt(args.threshold, steps[2].ultra_wealthy_new)
    /\ FLt(steps[2].ultra_wealthy_new, twin.threshold)
    /\ FLt(Zero, steps[2].tax_collected)
    /\ FLt(After(2).top, steps[2].ultra_wealthy_new)

(***************************************************************************)
(* C7: the revenue the page recomputes                                     *)
(***************************************************************************)
\* the revenue loop has ended
RevenueListed == pc \in {"KeyError", "summary", "ZeroDivisionError", "total", "done"}

RECURSIVE RevenueSum(_)
\* the float sum of the first n revenue entries, in order
RevenueSum(n) ==
    IF n = 0 THEN FInt(0) ELSE FAdd(RevenueSum(n - 1), tax_revenue[n].tax_revenue)

\* one entry a simulated year, in order, and the total their sum
RevenueCounted ==
    /\ RevenueListed =>
          /\ Len(tax_revenue) = args.years
          /\ \A t \in 1..Len(tax_revenue) : tax_revenue[t].year = t
    /\ pc = "done" => total_tax = RevenueSum(args.years)

\* C7 as claimed: the revenue recomputed for year t equals the taxCollected
\* of step t, there is one entry a simulated year, and the total is their sum.
C7_RevenueExact ==
    /\ \A t \in 1..Len(tax_revenue) :
          FEq(tax_revenue[t].tax_revenue, steps[t].tax_collected)
    /\ RevenueCounted

\* C7 as amended: the revenue recomputed for year t equals the taxCollected
\* of step t to within rounding of the top group's wealth, 2^-48 of its
\* post-growth value and the tax together (so not to within a fraction of the
\* revenue itself); there is one entry a simulated year, and the total is the
\* float sum of the entries in order.
C7_RevenueToRounding ==
    /\ \A t \in 1..Len(tax_revenue) :
          Close(tax_revenue[t].tax_revenue, steps[t].tax_collected,
                DAdd(DAbs(steps[t].ultra_wealthy_new), DAbs(steps[t].tax_collected)))
    /\ RevenueCounted

C7_Witness ==
    /\ pc = "done" /\ Len(tax_revenue) = 2
    /\ FLt(Zero, steps[2].tax_collected)
    /\ FLt(Zero, tax_revenue[2].tax_revenue)
    /\ FLt(tax_revenue[2].tax_revenue, total_tax)

(***************************************************************************)
(* C8: shares of a zero total                                              *)
(***************************************************************************)
\* the three wealth values of the snapshot of row i add up to zero
ZeroTotal(i) ==
    IsZero(FAdd(FAdd(FAdd(FInt(0), results[i].top), results[i].middle), results[i].lower))

\* a share of a zero total: nan for a group that holds nothing, else nan or
\* an infinity; never a number and never an exception
Undefined(share, wealth) ==
    IF IsZero(wealth) THEN share.k = "nan" ELSE share.k \in {"nan", "inf"}

UndefinedShares(top, middle, lower, row) ==
    /\ Undefined(top, row.top)
    /\ Undefined(middle, row.middle)
    /\ Undefined(lower, row.lower)

\* inside the documented domain a zero total leaves every group with nothing
AllNaN(i) ==
    (InRange /\ i <= share_i) =>
       \A j \in 4..6 : wealth_shares[i][j].k = "nan"

YearsInOrder == \A i \in 1..Len(results) : results[i].year = i - 1

\* a step of the loop appends one snapshot, no other step appends any, and
\* no step changes a snapshot the list holds
AppendsOne ==
    /\ Len(results') = (IF pc = "loop" /\ year' # year THEN Len(results) + 1
                        ELSE IF pc = "start" THEN 1 ELSE Len(results))
    /\ \A i \in 1..Len(results) : results'[i] = results[i]

\* C9: at every point of the run the snapshot at position i is of year i,
\* every iteration of the loop appends exactly one snapshot, and a snapshot
\* once appended is never changed.
C9_AppendOnly == [](YearsInOrder) /\ [][AppendsOne]_vars

C9_Witness ==
    /\ Returned /\ Len(results) = 3
    /\ results[2].year = 1 /\ results[3].year = 2
    /\ results[2] # results[3]

(***************************************************************************)
(* C10: the page's own run                                                 *)
(***************************************************************************)
\* every group's wealth in the snapshot at position i is positive, and so is
\* their total as the share computations add it up
AllPositive(i) ==
    /\ FLt(Zero, results[i].top)
    /\ FLt(Zero, results[i].middle)
    /\ FLt(Zero, results[i].lower)
    /\ FLt(Zero, FAdd(FAdd(FAdd(FInt(0), results[i].top), results[i].middle),
                      results[i].lower))

\* the middle and lower groups hold more after year t than before it
GrowsIn(t) ==
    /\ FLt(Before(t).middle, After(t).middle)
    /\ FLt(Before(t).lower, After(t).lower)

\* C10: from the built-in distribution and with the sliders' values, every
\* group's wealth is positive in every snapshot, no denominator of a share
\* computation is zero (total_wealth in the share loop, the rows' sums in the
\* summary), and the middle and lower groups' wealth increases strictly from
\* each year to the next.
C10_PositiveAndGrowing ==
    /\ \A i \in 1..Len(results) : AllPositive(i)
    /\ \A t \in Simulated : GrowsIn(t)
    /\ \A i \in 1..Len(share_totals) : share_totals[i] # Num(DZero(0))
                                        /\ share_totals[i] # Num(DZero(1))
    /\ Len(share_totals) >= 1 => (share_totals[1].k = "num" /\ FLt(Zero, share_totals[1].v))
    /\ pc # "ZeroDivisionError"

C10_Witness ==
    /\ pc = "done" /\ Len(results) = MinAppYears + 1
    /\ args.wealth_groups = initialize_wealth_groups
    /\ FLt(Zero, steps[MinAppYears].tax_collected)
    /\ FLt(After(MinAppYears).top, Before(MinAppYears).top)
    /\ Len(share_totals) = MinAppYears + 1

====
